---- MODULE Spec2Model ----
(***************************************************************************)
(* kmldrv (src/simrupt.c): a periodic timer ("hard interrupt") drives a    *)
(* tasklet ("soft interrupt") that queues work items; two move tasks play  *)
(* tic-tac-toe on a shared table, a render task draws the table into       *)
(* draw_buffer and pushes it into a kfifo that user space reads.           *)
(***************************************************************************)
EXTENDS Integers, Sequences, FiniteSets, TLC

(* ---------------- bounds of the model ---------------- *)

\* capacity given to kfifo_alloc; stands for PAGE_SIZE, scaled down so that
\* the queue fills up after two snapshots
FifoSize == 64
\* number of candidate cells a move engine may choose among
EngineChoices == 2
\* number of times the timer fires
MaxTicks == 2

(* ---------------- game.h (not part of src/) ---------------- *)

BOARD_SIZE == 3
N_GRIDS == BOARD_SIZE * BOARD_SIZE
DRAWBUFFER_SIZE == 2 + BOARD_SIZE * (4 * BOARD_SIZE)

Cells == 0 .. (N_GRIDS - 1)
Marks == {" ", "O", "X"}
EmptyTable == [c \in Cells |-> " "]

Lines ==
    {{0, 1, 2}, {3, 4, 5}, {6, 7, 8}, {0, 3, 6}, {1, 4, 7}, {2, 5, 8},
     {0, 4, 8}, {2, 4, 6}}

HasLine(t, m) == \E l \in Lines : \A c \in l : t[c] = m

EmptyCells(t) == {c \in Cells : t[c] = " "}

\* ' ' while the game is in progress, the winner's mark, or 'D' for a draw
check_win(t) ==
    IF HasLine(t, "O") THEN "O"
    ELSE IF HasLine(t, "X") THEN "X"
    ELSE IF EmptyCells(t) = {} THEN "D"
    ELSE " "

(* ---------------- move engines (mcts.h, negamax.h: external) ---------- *)

RECURSIVE LowestCells(_, _)
LowestCells(s, n) ==
    IF n = 0 \/ s = {} THEN {}
    ELSE LET m == CHOOSE x \in s : \A y \in s : x <= y
         IN  {m} \cup LowestCells(s \ {m}, n - 1)

\* the replies an engine may give for a table: an empty cell, or -1 when
\* there is no legal move (no empty cell, or the game is already decided)
EngineMoves(t) ==
    LET cand == LowestCells(EmptyCells(t), EngineChoices)
    IN  IF cand = {} THEN {-1}
        ELSE IF check_win(t) # " " THEN cand \cup {-1}
        ELSE cand

mcts(t, player) == EngineMoves(t)
negamax_predict(t, player) == EngineMoves(t)

(* ---------------- draw_board ---------------- *)

Min(a, b) == IF a < b THEN a ELSE b

\* first inner loop: j < (BOARD_SIZE << 1) - 1 && k < N_GRIDS
RECURSIVE DrawCells(_, _, _, _)
DrawCells(t, buf, j, k) ==
    IF j < (BOARD_SIZE * 2) - 1 /\ k < N_GRIDS
    THEN DrawCells(t, Append(buf, IF j % 2 = 1 THEN "|" ELSE t[k]), j + 1,
                   IF j % 2 = 1 THEN k ELSE k + 1)
    ELSE <<buf, k>>

\* second inner loop: a row of '-'
Dashes == [j \in 1 .. ((BOARD_SIZE * 2) - 1) |-> "-"]

\* while (i < DRAWBUFFER_SIZE)
RECURSIVE DrawRows(_, _, _)
DrawRows(t, buf, k) ==
    IF Len(buf) < DRAWBUFFER_SIZE
    THEN LET r == DrawCells(t, buf, 0, k)
         IN  DrawRows(t, r[1] \o <<"\n">> \o Dashes \o <<"\n">>, r[2])
    ELSE buf

\* draws the cells in the opposite order
draw_board_reversed(t) ==
    DrawRows([c \in Cells |-> t[N_GRIDS - 1 - c]], <<"\n", "\n">>, 0)

draw_board(t) == DrawRows(t, <<"\n", "\n">>, 0)

\* one pass of draw_board's loops: draw_buffer[i++] = ...; the byte written at
\* index i is a fixed character or the cell the loop reads at that moment
draw_board_byte(t, buf, i) == [buf EXCEPT ![i + 1] = draw_board(t)[i + 1]]


(* ---------------- kfifo ---------------- *)

kfifo_len(fifo) == Len(fifo)

\* a queue that always reports all its space free
kfifo_unused_whole(fifo) == FifoSize

\* the free space of the queue
kfifo_unused(fifo) == FifoSize - kfifo_len(fifo)

\* kfifo_in: the number of bytes it copies is the free space at most, the
\* rest is not stored; the bytes are copied one by one and become part of the
\* queue when the copy is complete
kfifo_in_len(fifo, n) == Min(n, kfifo_unused(fifo))

\* kfifo_to_user first takes the number of bytes it will copy: count, or
\* what the queue holds if that is less
kfifo_to_user_len(fifo, count) == Min(count, kfifo_len(fifo))

\* then it copies to the user, which can sleep, and last it moves the out
\* index by the number of bytes copied: these leave the queue.  A copy that
\* faults has copied fewer bytes than were taken.
kfifo_to_user(fifo, copied) ==
    [out |-> SubSeq(fifo, 1, copied),
     rest |-> SubSeq(fifo, copied + 1, Len(fifo))]

\* where a copy of l bytes may fault: at its first byte or at its last
FaultPoints(l) == {n \in {0, l - 1} : n >= 0 /\ n < l}

(* ---------------- kmldrv_state_store: sscanf(buf, "%c %c %c", ...) ------ *)

\* the kernel's isspace(): blank, \n, \t, \r, \f, the vertical tab and the
\* no-break space, byte 0xA0 (written "VT" and "NBSP": TLA+ strings have no
\* escape for them)
IsSpace(ch) == ch \in {" ", "\n", "\t", "\r", "\f", "VT", "NBSP"}

\* a blank in the format skips any amount of white space in the input
RECURSIVE SkipSpace(_)
SkipSpace(s) ==
    IF s # <<>> /\ IsSpace(Head(s)) THEN SkipSpace(Tail(s)) ELSE s

\* one %c: the field takes the next character, whatever it is
sscanf_c(buf, old, field) == [old EXCEPT ![field] = Head(buf)]

\* the whole call: a field the input does not reach keeps its old value
sscanf_attr(buf, old) ==
    IF buf = <<>> THEN old
    ELSE LET a1 == [old EXCEPT !.display = Head(buf)]
             b1 == SkipSpace(Tail(buf))
         IN  IF b1 = <<>> THEN a1
             ELSE LET a2 == [a1 EXCEPT !.resume = Head(b1)]
                      b2 == SkipSpace(Tail(b1))
                  IN  IF b2 = <<>> THEN a2
                      ELSE [a2 EXCEPT !.end = Head(b2)]

\* the fields in the order of the format, and what follows the last
ScanNext(field) ==
    IF field = "display" THEN "resume"
    ELSE IF field = "resume" THEN "end" ELSE "held"

\* the buffers written to the sysfs attribute
StoreInputs ==
    { <<"0", " ", "1", " ", "0", "\n">>,
      <<"1", " ", "1", " ", "0", "\n">>,
      <<"1", " ", "1", " ", "1", "\n">>,
      <<"0", "\r", "\n", "1">>,
      <<"0", "NBSP", "1">>,
      <<"0">> }

(* ---------------- the value kmldrv_read returns ---------------- *)

\* 2^16: a value of type ssize_t is kept as the pair <<v div 2^16, v mod 2^16>>
Half == 65536

\* a value returned as it is
ssize_t(v) == <<v \div Half, v % Half>>

\* a value converted to unsigned int (32 bits) and then widened to the 64
\* bits of ssize_t
unsigned_int(x) == <<(x \div Half) % Half, x % Half>>

\* return ret ? ret : read;  with int ret and unsigned int read the value of
\* the conditional expression is an unsigned int
ReadReturn(ret, read) ==
    IF ret # 0 THEN unsigned_int(ret) ELSE unsigned_int(read)

(* ---------------- state ---------------- *)

Works == {"ai_one", "ai_two", "calc", "draw"}
\* the processes that use the device: each opens one file, reads from it and
\* closes it
Readers == {"r1", "r2"}
ReadCounts == {DRAWBUFFER_SIZE, FifoSize}
\* f_flags & O_NONBLOCK of the file each reader reads from
NonBlock == [r \in Readers |-> r = "r2"]
\* the callers of flush_workqueue: kmldrv_release of each file, kmldrv_exit
Flushers == Readers \cup {"exit"}

EAGAIN == 11
ENOMEM == 12
EFAULT == 14
ERESTARTSYS == 512

VARIABLES
    open_cnt,       \* atomic_t open_cnt
    fpc,            \* position of each process in kmldrv_open / kmldrv_release
    timer_pending,  \* the timer is armed
    hpc,            \* position of timer_handler
    hirq,           \* timer_handler interrupted kmldrv_state_store on its CPU
    resetIdx,       \* cells already cleared by the memset in timer_handler
    reset_from,     \* the table as it was when that memset began
    tasklet_sched,  \* game_tasklet is scheduled
    tpc,            \* position of game_tasklet_func
    tturn,          \* value of turn the tasklet has loaded
    pending,        \* work item is queued
    wpc,            \* position of each work function
    amove,          \* `move` of each move task (-2: not computed)
    need,           \* executions each flush_workqueue still waits for
    producer_lock,  \* owner of the mutex, or "free"
    consumer_lock,  \* owner of the mutex, or "free"
    read_lock,      \* owner of the mutex, or "free"
    attr_obj,       \* display, resume, end
    attr_wlocked,   \* attr_obj.lock is held for writing
    spc,            \* position of kmldrv_state_store
    sbuf,           \* input its sscanf has not read yet
    table, turn, finish,
    draw_buffer,
    dpos,           \* `i` of the draw_board call in progress
    rx_fifo,
    pcopy,          \* bytes the kfifo_in in progress has copied
    plen,           \* number of bytes that kfifo_in copies
    len_in,         \* what the last kfifo_in returned
    rpc,            \* position of each kmldrv_read
    rarg,           \* O_NONBLOCK and count of each kmldrv_read
    rlen,           \* number of bytes its kfifo_to_user has taken to copy
    rret,           \* value returned by each kmldrv_read
    rout,           \* bytes copied to the user by each kmldrv_read
    rsince,         \* bytes pushed since the read went to sleep
    last_mover,     \* side of the move task that stored its result last
    ticks,          \* number of times the timer has fired
    halted,         \* a tick found the game over with end set and stopped
    reopen,         \* "closed" after a close to zero, "opened" once reopened
    ipc,            \* position of kmldrv_init / kmldrv_exit
    held,           \* resources kmldrv_init has acquired and not released
    iret            \* value returned by kmldrv_init

vars ==
    <<open_cnt, fpc, timer_pending, hpc, hirq, resetIdx, reset_from,
      tasklet_sched, tpc, tturn, pending, wpc, amove, need, producer_lock,
      consumer_lock, read_lock, attr_obj, attr_wlocked, spc, sbuf, table, turn,
      finish, draw_buffer, dpos, rx_fifo, pcopy, plen, len_in, rpc, rarg,
      rlen, rret, rout, rsince, last_mover, ticks, halted, reopen, ipc, held, iret>>

timerVars == <<timer_pending, hpc, hirq, resetIdx, reset_from, ticks, halted>>
taskletVars == <<tasklet_sched, tpc, tturn>>
workVars == <<pending, wpc, amove, need>>
lockVars == <<producer_lock, consumer_lock>>
attrVars == <<attr_obj, attr_wlocked, spc, sbuf>>
gameVars == <<table, turn, finish, last_mover>>
fifoVars == <<draw_buffer, dpos, rx_fifo, pcopy, plen, len_in, rsince>>
readVars == <<read_lock, rpc, rarg, rlen, rret, rout>>
initVars == <<ipc, held, iret>>
lifeVars == <<open_cnt, fpc, reopen, initVars>>

NoBytes == <<>>
NotAsleep == <<"none">>
NoArg == [nonblock |-> FALSE, count |-> 0]
NoMove == -2

\* what kmldrv_init acquires, in the order it acquires it
Resources ==
    {"rx_fifo", "chrdev_region", "cdev", "class", "device", "sysfs_file",
     "fast_buf", "workqueue"}

\* static storage before kmldrv_init has set it
ZeroBuffer == [i \in 1 .. DRAWBUFFER_SIZE |-> "NUL"]
ZeroTable == [c \in Cells |-> "NUL"]

\* Nothing is in progress: no handler, tasklet, store or read is anywhere, no
\* work function runs and no lock is held.
Quiet ==
    /\ hpc = "idle"
    /\ hirq = FALSE
    /\ resetIdx = 0
    /\ reset_from = EmptyTable
    /\ tasklet_sched = FALSE
    /\ tpc = "idle"
    /\ tturn = "-"
    /\ wpc = [w \in Works |-> "idle"]
    /\ amove = [w \in {"ai_one", "ai_two"} |-> NoMove]
    /\ need = [f \in Flushers |-> [w \in Works |-> 0]]
    /\ producer_lock = "free"
    /\ consumer_lock = "free"
    /\ read_lock = "free"
    /\ attr_wlocked = FALSE
    /\ spc = "idle"
    /\ sbuf = <<>>
    /\ dpos = 0
    /\ pcopy = <<>>
    /\ plen = 0
    /\ rpc = [r \in Readers |-> "idle"]
    /\ rarg = [r \in Readers |-> NoArg]
    /\ rlen = [r \in Readers |-> 0]
    /\ rret = [r \in Readers |-> ssize_t(0)]
    /\ rout = [r \in Readers |-> NoBytes]
    /\ rsince = [r \in Readers |-> NotAsleep]
    /\ ticks = 0
    /\ halted = FALSE
    /\ reopen = "none"

\* the processes that have the device open when cnt files are open
OpenFiles(cnt) == IF cnt = 0 THEN {} ELSE IF cnt = 1 THEN {"r1"} ELSE Readers

\* The loaded device between two ticks: cnt files are open, the attribute is
\* a, the table is t with O to move, the work items in queued are queued and
\* the queue holds q.  With a move task queued the tasklet that queued it has
\* cleared finish.  On the empty table nothing has been drawn yet; on a later
\* table the last render has drawn it.
AtRestQueue(cnt, t, queued, a, q) ==
    /\ Quiet
    /\ rx_fifo = q
    /\ ipc = "done"
    /\ held = Resources
    /\ iret = 0
    /\ open_cnt = cnt
    /\ fpc = [r \in Readers |-> IF r \in OpenFiles(cnt) THEN "open" ELSE "closed"]
    /\ timer_pending = (cnt > 0)
    /\ pending = [w \in Works |-> w \in queued]
    /\ attr_obj = a
    /\ table = t
    /\ turn = "O"
    /\ finish = IF queued \cap {"ai_one", "ai_two"} = {} THEN 1 ELSE 0
    /\ draw_buffer = IF t = EmptyTable THEN ZeroBuffer ELSE draw_board(t)
    /\ len_in = IF t = EmptyTable THEN 0 ELSE DRAWBUFFER_SIZE
    /\ last_mover = IF t = EmptyTable THEN " " ELSE "X"

\* the same, a reader having emptied the queue
AtRestAttr(cnt, t, queued, a) == AtRestQueue(cnt, t, queued, a, <<>>)

\* the attribute as kmldrv_init sets it, and after writes of "0 1 0" and of
\* "0 1 1"
AttrInit == [display |-> "1", resume |-> "1", end |-> "0"]
AttrNoDisplay == [display |-> "0", resume |-> "1", end |-> "0"]
AttrNoDisplayEnd == [display |-> "0", resume |-> "1", end |-> "1"]

AtRest(cnt, t, queued) == AtRestAttr(cnt, t, queued, AttrInit)

\* the same with no work item queued
Rest(cnt, t) == AtRest(cnt, t, {})

\* insmod is about to call kmldrv_init: nothing is held, the statics are zero
Init ==
    /\ Quiet
    /\ rx_fifo = <<>>
    /\ ipc = "kfifo_alloc"
    /\ held = {}
    /\ iret = 0
    /\ open_cnt = 0
    /\ fpc = [r \in Readers |-> "closed"]
    /\ timer_pending = FALSE
    /\ pending = [w \in Works |-> FALSE]
    /\ attr_obj = [display |-> "NUL", resume |-> "NUL", end |-> "NUL"]
    /\ table = ZeroTable
    /\ turn = "NUL"
    /\ finish = 0
    /\ draw_buffer = ZeroBuffer
    /\ len_in = 0
    /\ last_mover = " "

\* Tables late in a game, O to move: on the first O wins with cell 6, on the
\* second the last empty cell gives a draw.
WinTable ==
    [c \in Cells |-> <<"O", "X", "O", "O", "X", "X", " ", " ", " ">>[c + 1]]
DrawTable ==
    [c \in Cells |-> <<"O", "X", "O", "O", "X", "X", "X", "O", " ">>[c + 1]]

(* ---------------- helpers shared by the handlers ---------------- *)

Other(side) == IF side = "O" THEN "X" ELSE "O"

\* queue_work: a work item that is already queued is not queued twice
queue_work(p, ws) == [w \in Works |-> p[w] \/ w \in ws]

\* a work function returns: every flush_workqueue waits for one execution
\* less
WorkDone(w) ==
    /\ wpc' = [wpc EXCEPT ![w] = "idle"]
    /\ need' = [f \in Flushers |->
                  [need[f] EXCEPT ![w] = IF @ > 0 THEN @ - 1 ELSE 0]]

\* flush_workqueue is called: it waits for what is queued and what runs now
FlushNeeds ==
    [w \in Works |-> (IF pending[w] THEN 1 ELSE 0)
                     + (IF wpc[w] # "idle" THEN 1 ELSE 0)]

\* a mutex that is never released
mutex_unlock_never(owner) == owner

\* mutex_unlock: the mutex has no owner
mutex_unlock(owner) == "free"

\* the timer handler holds attr_obj.lock for reading
HandlerHoldsAttr ==
    hpc \in {"plock", "draw", "clock", "push", "copy", "memset"}

(* ---------------- draw_board and produce_board, step by step ------------- *)

\* draw_board(table), called with producer_lock held: one byte
draw_board_step ==
    /\ dpos < DRAWBUFFER_SIZE
    /\ draw_buffer' = draw_board_byte(table, draw_buffer, dpos)
    /\ dpos' = dpos + 1

\* draw_board returns
draw_board_done ==
    /\ dpos = DRAWBUFFER_SIZE
    /\ dpos' = 0

\* produce_board: kfifo_in finds how many bytes fit
produce_board_begin ==
    /\ plen' = kfifo_in_len(rx_fifo, DRAWBUFFER_SIZE)
    /\ pcopy' = <<>>

\* kfifo_in copies one byte of draw_buffer
produce_board_copy ==
    /\ Len(pcopy) < plen
    /\ pcopy' = Append(pcopy, draw_buffer[Len(pcopy) + 1])

\* kfifo_in returns: the copied bytes are in the queue; followed by the
\* bookkeeping of the readers that sleep or have not yet taken their length
produce_board_end ==
    /\ Len(pcopy) = plen
    /\ rx_fifo' = rx_fifo \o pcopy
    /\ len_in' = plen
    /\ pcopy' = <<>>
    /\ plen' = 0
    /\ rsince' = [r \in Readers |->
                    IF rpc[r] \in {"wait", "copy"} /\ rsince[r] # NotAsleep
                    THEN rsince[r] \o pcopy ELSE rsince[r]]

(* ---------------- kmldrv_init ---------------- *)

\* the labels at the end of kmldrv_init, each falling through to the next
error_alloc(h) == h \ {"rx_fifo"}
error_region(h) == error_alloc(h \ {"chrdev_region"})
error_cdev(h) == error_region(h \ {"cdev"})

\* device_destroy removes the device and the attribute files under it
device_destroy(h) == h \ {"device", "sysfs_file"}
class_destroy(h) == h \ {"class"}

\* error codes a failing kernel call may hand back in ret
CalleeErrors == {-ENOMEM, -EFAULT}

\* positions of kmldrv_exit
ExitPcs == {"tasklet_kill", "flush", "unloaded"}

\* cdev_add has made the device known: it can be opened from then on, until
\* cdev_del or until the module is on its way out
DeviceLive == "cdev" \in held /\ ipc \notin ExitPcs

\* device_create_file has made the attribute known: it can be written from
\* then on, until device_destroy
StoreLive == "sysfs_file" \in held

\* timer_setup has run
TimerSetUp == ipc \in ({"atomic_set", "done"} \cup ExitPcs)

\* kmldrv_init returns ret with h still held
InitReturns(ret, h) ==
    /\ ipc' = "failed"
    /\ iret' = ret
    /\ held' = h

\* a step that succeeded: its resources are held, the next step follows
InitGoesOn(got, next) ==
    /\ ipc' = next
    /\ held' = held \cup got
    /\ UNCHANGED iret

\* everything kmldrv_init leaves alone before it sets the state
InitFrame ==
    UNCHANGED <<open_cnt, fpc, reopen, timerVars, taskletVars, workVars,
                lockVars, attrVars, gameVars, fifoVars, readVars>>

\* if (kfifo_alloc(&rx_fifo, PAGE_SIZE, GFP_KERNEL) < 0) return -ENOMEM;
init_kfifo_alloc ==
    /\ ipc = "kfifo_alloc"
    /\ \/ InitGoesOn({"rx_fifo"}, "alloc_chrdev_region")
       \/ InitReturns(-ENOMEM, held)
    /\ InitFrame

\* ret = alloc_chrdev_region(...); if (ret) goto error_alloc;
init_alloc_chrdev_region ==
    /\ ipc = "alloc_chrdev_region"
    /\ \/ InitGoesOn({"chrdev_region"}, "cdev_add")
       \/ \E e \in CalleeErrors : InitReturns(e, error_alloc(held))
    /\ InitFrame

\* ret = cdev_add(...); if (ret) { kobject_put(...); goto error_region; }
init_cdev_add ==
    /\ ipc = "cdev_add"
    /\ \/ InitGoesOn({"cdev"}, "class_create")
       \/ \E e \in CalleeErrors : InitReturns(e, error_region(held))
    /\ InitFrame

\* kmldrv_class = class_create(...); if (IS_ERR(...)) goto error_cdev;
init_class_create ==
    /\ ipc = "class_create"
    /\ \/ InitGoesOn({"class"}, "device_create_file")
       \/ \E e \in CalleeErrors : InitReturns(e, error_cdev(held))
    /\ InitFrame

\* device_create(...), whose result is not tested, then
\* ret = device_create_file(...); if (ret < 0) goto error_cdev;
\* When device_create failed device_create_file gets its error pointer:
\* it dereferences it and kmldrv_init stops in an oops, or it rejects it.
init_device_create_file ==
    /\ ipc = "device_create_file"
    /\ \/ InitGoesOn({"device", "sysfs_file"}, "vmalloc")
       \/ \E e \in CalleeErrors :
             InitReturns(e, error_cdev(held \cup {"device"}))
       \/ /\ ipc' = "oops"
          /\ UNCHANGED <<held, iret>>
       \/ \E e \in CalleeErrors : InitReturns(e, error_cdev(held))
    /\ InitFrame

\* fast_buf.buf = vmalloc(PAGE_SIZE); if (!fast_buf.buf) { device_destroy;
\* class_destroy; ret = -ENOMEM; goto error_cdev; }
\* device_destroy waits for a write of the attribute that is in progress
init_vmalloc ==
    /\ ipc = "vmalloc"
    /\ \/ InitGoesOn({"fast_buf"}, "alloc_workqueue")
       \/ /\ spc = "idle"
          /\ InitReturns(-ENOMEM,
                         error_cdev(class_destroy(device_destroy(held))))
    /\ InitFrame

\* kmldrv_workqueue = alloc_workqueue(...); if (!kmldrv_workqueue) { vfree;
\* device_destroy; class_destroy; ret = -ENOMEM; goto error_cdev; }
init_alloc_workqueue ==
    /\ ipc = "alloc_workqueue"
    /\ \/ InitGoesOn({"workqueue"}, "game")
       \/ /\ spc = "idle"
          /\ InitReturns(-ENOMEM,
                         error_cdev(class_destroy(device_destroy(
                             held \ {"fast_buf"}))))
    /\ InitFrame

\* negamax_init(); mcts_init(); memset(table, ' ', N_GRIDS); turn = 'O';
\* finish = 1;  (nothing reads them before the timer is set up)
init_game ==
    /\ ipc = "game"
    /\ table' = EmptyTable
    /\ turn' = "O"
    /\ finish' = 1
    /\ ipc' = "display"
    /\ UNCHANGED <<held, iret, open_cnt, fpc, reopen, last_mover, timerVars,
                   taskletVars, workVars, lockVars, attrVars, fifoVars,
                   readVars>>

\* the field of attr_obj each position of kmldrv_init stores, and the
\* position that follows
InitAttrNext(pc) ==
    IF pc = "display" THEN "resume"
    ELSE IF pc = "resume" THEN "end" ELSE "rwlock_init"

\* attr_obj.display = '1'; attr_obj.resume = '1'; attr_obj.end = '0';
\* plain stores, one at a time, whoever holds attr_obj.lock
init_attr ==
    /\ ipc \in {"display", "resume", "end"}
    /\ attr_obj' = [attr_obj EXCEPT ![ipc] = AttrInit[ipc]]
    /\ ipc' = InitAttrNext(ipc)
    /\ UNCHANGED <<held, iret, open_cnt, fpc, reopen, attr_wlocked, spc,
                   sbuf, timerVars, taskletVars, workVars, lockVars, gameVars,
                   fifoVars, readVars>>

\* rwlock_init(&attr_obj.lock): the lock is free, whoever held it
init_rwlock ==
    /\ ipc = "rwlock_init"
    /\ attr_wlocked' = FALSE
    /\ ipc' = "timer_setup"
    /\ UNCHANGED <<held, iret, open_cnt, fpc, reopen, attr_obj, spc, sbuf,
                   timerVars, taskletVars, workVars, lockVars, gameVars,
                   fifoVars, readVars>>

\* timer_setup(&timer, timer_handler, 0);
init_timer_setup ==
    /\ ipc = "timer_setup"
    /\ ipc' = "atomic_set"
    /\ UNCHANGED <<held, iret>>
    /\ InitFrame

\* atomic_set(&open_cnt, 0); return ret;  whatever the files already open
init_open_cnt ==
    /\ ipc = "atomic_set"
    /\ open_cnt' = 0
    /\ ipc' = "done"
    /\ UNCHANGED <<held, iret, fpc, reopen, timerVars, taskletVars, workVars,
                   lockVars, attrVars, gameVars, fifoVars, readVars>>

kmldrv_init ==
    \/ init_kfifo_alloc
    \/ init_alloc_chrdev_region
    \/ init_cdev_add
    \/ init_class_create
    \/ init_device_create_file
    \/ init_vmalloc
    \/ init_alloc_workqueue
    \/ init_game
    \/ init_attr
    \/ init_rwlock
    \/ init_timer_setup
    \/ init_open_cnt

(* ---------------- kmldrv_exit ---------------- *)

\* rmmod runs kmldrv_exit once no file is open.  del_timer_sync(&timer):
\* waits for a running handler, then the timer is not armed
exit_del_timer ==
    /\ ipc = "done"
    /\ \A r \in Readers : fpc[r] = "closed"
    /\ hpc = "idle"
    /\ timer_pending' = FALSE
    /\ ipc' = "tasklet_kill"
    /\ UNCHANGED <<held, iret, open_cnt, fpc, reopen, hpc, hirq, resetIdx,
                   reset_from, ticks, halted, taskletVars, workVars, lockVars,
                   attrVars, gameVars, fifoVars, readVars>>

\* tasklet_kill(&game_tasklet): waits until the tasklet is neither scheduled
\* nor running; then flush_workqueue is called
exit_tasklet_kill ==
    /\ ipc = "tasklet_kill"
    /\ ~tasklet_sched
    /\ tpc = "idle"
    /\ need' = [need EXCEPT !["exit"] = FlushNeeds]
    /\ ipc' = "flush"
    /\ UNCHANGED <<held, iret, open_cnt, fpc, reopen, pending, wpc, amove,
                   timerVars, taskletVars, lockVars, attrVars, gameVars,
                   fifoVars, readVars>>

\* flush_workqueue returns; destroy_workqueue, vfree, device_destroy (which
\* waits for a write of the attribute in progress), class_destroy, cdev_del,
\* unregister_chrdev_region, kfifo_free
exit_free ==
    /\ ipc = "flush"
    /\ \A w \in Works : need["exit"][w] = 0
    /\ spc = "idle"
    /\ held' = error_cdev(class_destroy(device_destroy(
                   held \ {"workqueue", "fast_buf"})))
    /\ ipc' = "unloaded"
    /\ UNCHANGED <<iret, open_cnt, fpc, reopen, timerVars, taskletVars,
                   workVars, lockVars, attrVars, gameVars, fifoVars, readVars>>

kmldrv_exit ==
    \/ exit_del_timer
    \/ exit_tasklet_kill
    \/ exit_free

(* ---------------- kmldrv_open, kmldrv_release ---------------- *)

\* if (atomic_inc_return(&open_cnt) == 1)
open_inc(r) ==
    /\ fpc[r] = "closed"
    /\ DeviceLive
    /\ open_cnt' = open_cnt + 1
    /\ fpc' = [fpc EXCEPT ![r] = IF open_cnt + 1 = 1 THEN "arm" ELSE "open"]
    /\ halted' = FALSE
    /\ reopen' = IF reopen = "closed" THEN "opened" ELSE reopen
    /\ UNCHANGED <<timer_pending, hpc, hirq, resetIdx, reset_from, ticks,
                   initVars, taskletVars, workVars, lockVars, attrVars,
                   gameVars, fifoVars, readVars>>

\* mod_timer(&timer, ...); return 0;  On a timer that timer_setup has not
\* touched (its function is NULL) mod_timer arms nothing on kernels from 6.2
\* on and stops the caller in BUG_ON on older ones.  Once kmldrv_init has
\* failed the code of kmldrv_open is no longer there.
open_arm(r) ==
    /\ fpc[r] = "arm"
    /\ IF TimerSetUp
       THEN /\ timer_pending' = TRUE
            /\ fpc' = [fpc EXCEPT ![r] = "open"]
       ELSE /\ UNCHANGED timer_pending
            /\ \E out \in (IF ipc = "failed" THEN {"oops"}
                            ELSE {"open", "oops"}) :
                  fpc' = [fpc EXCEPT ![r] = out]
    /\ UNCHANGED <<open_cnt, reopen, hpc, hirq, resetIdx, reset_from, ticks,
                   halted, initVars, taskletVars, workVars, lockVars,
                   attrVars, gameVars, fifoVars, readVars>>

kmldrv_open(r) == open_inc(r) \/ open_arm(r)

\* atomic_dec_and_test: true when the decremented counter is zero
atomic_dec_and_test(cnt) == IF cnt - 1 = 0 THEN 1 ELSE 0

\* if (atomic_dec_and_test(&open_cnt) == 0)
ReleaseStops(cnt) == atomic_dec_and_test(cnt) = 0

\* The file system releases a file when nothing uses it any more: not while
\* a read on it is in progress.  Nothing orders the releases of two files.
release_dec(r) ==
    /\ fpc[r] = "open"
    /\ rpc[r] = "idle"
    /\ ipc # "failed"
    /\ open_cnt' = open_cnt - 1
    /\ fpc' = [fpc EXCEPT ![r] =
                 IF ReleaseStops(open_cnt) THEN "del_timer" ELSE "closed"]
    /\ reopen' = IF open_cnt - 1 = 0 THEN "closed" ELSE reopen
    /\ UNCHANGED initVars
    /\ UNCHANGED <<timerVars, taskletVars, workVars, lockVars, attrVars,
                   gameVars, fifoVars, readVars>>

\* del_timer_sync: waits for a running handler, then the timer is not armed
release_del_timer(r) ==
    /\ fpc[r] = "del_timer"
    /\ hpc = "idle"
    /\ timer_pending' = FALSE
    /\ fpc' = [fpc EXCEPT ![r] = "flush_call"]
    /\ UNCHANGED <<hpc, hirq, resetIdx, reset_from, ticks, halted, open_cnt,
                   reopen, initVars, workVars>>
    /\ UNCHANGED <<taskletVars, lockVars, attrVars, gameVars, fifoVars,
                   readVars>>

\* flush_workqueue(kmldrv_workqueue) is called, with a null pointer if
\* alloc_workqueue has not run
release_flush_call(r) ==
    /\ fpc[r] = "flush_call"
    /\ IF "workqueue" \in held
       THEN /\ fpc' = [fpc EXCEPT ![r] = "flush"]
            /\ need' = [need EXCEPT ![r] = FlushNeeds]
       ELSE /\ fpc' = [fpc EXCEPT ![r] = "oops"]
            /\ UNCHANGED need
    /\ UNCHANGED <<open_cnt, reopen, initVars, pending, wpc, amove, timerVars,
                   taskletVars, lockVars, attrVars, gameVars, fifoVars,
                   readVars>>

\* flush_workqueue returns; fast_buf_clear leaves head = tail = 0 as it was
release_flush(r) ==
    /\ fpc[r] = "flush"
    /\ \A w \in Works : need[r][w] = 0
    /\ fpc' = [fpc EXCEPT ![r] = "closed"]
    /\ UNCHANGED <<open_cnt, reopen, initVars, timerVars, taskletVars,
                   workVars, lockVars, attrVars, gameVars, fifoVars, readVars>>

\* a file opened while kmldrv_init was running is released after kmldrv_init
\* failed: the module's code is no longer there
release_unloaded(r) ==
    /\ fpc[r] = "open"
    /\ rpc[r] = "idle"
    /\ ipc = "failed"
    /\ fpc' = [fpc EXCEPT ![r] = "oops"]
    /\ UNCHANGED <<open_cnt, reopen, initVars, timerVars, taskletVars,
                   workVars, lockVars, attrVars, gameVars, fifoVars, readVars>>

kmldrv_release(r) ==
    \/ release_dec(r)
    \/ release_del_timer(r)
    \/ release_flush_call(r)
    \/ release_flush(r)

(* ---------------- kmldrv_state_store ---------------- *)

\* the timer softirq interrupted the store and has not returned: the store's
\* CPU runs the handler
StoreInterrupted == hirq /\ hpc # "idle"

\* kmldrv_init has not yet stored its values in attr_obj, which it does
\* without the lock
InitStoresAttr ==
    ipc \in {"vmalloc", "alloc_workqueue", "game", "display", "resume", "end"}

\* write_lock(&attr_obj.lock), which returns when no one holds the lock,
\* while kmldrv_init may still store to attr_obj: sscanf's stores are then
\* steps of their own
store_lock ==
    /\ spc = "idle"
    /\ StoreLive
    /\ InitStoresAttr
    /\ ~attr_wlocked
    /\ ~HandlerHoldsAttr
    /\ \E buf \in StoreInputs : sbuf' = buf
    /\ attr_wlocked' = TRUE
    /\ spc' = "display"
    /\ UNCHANGED <<attr_obj, lifeVars, timerVars, taskletVars, workVars,
                   lockVars, gameVars, fifoVars, readVars>>

\* sscanf stores one field, or returns at the end of the input
store_field ==
    /\ spc \in {"display", "resume", "end"}
    /\ ~StoreInterrupted
    /\ IF sbuf = <<>>
       THEN /\ spc' = "held"
            /\ UNCHANGED <<attr_obj, sbuf>>
       ELSE /\ attr_obj' = sscanf_c(sbuf, attr_obj, spc)
            /\ sbuf' = IF spc = "end" THEN <<>> ELSE SkipSpace(Tail(sbuf))
            /\ spc' = ScanNext(spc)
    /\ UNCHANGED <<attr_wlocked, lifeVars, timerVars, taskletVars, workVars,
                   lockVars, gameVars, fifoVars, readVars>>

\* write_lock and sscanf once kmldrv_init has stored its values: whoever
\* reads attr_obj takes the lock first, so no one sees the fields before
\* write_unlock and the stores are taken as one step
store_scan ==
    /\ spc = "idle"
    /\ StoreLive
    /\ ~InitStoresAttr
    /\ ~attr_wlocked
    /\ ~HandlerHoldsAttr
    /\ \E buf \in StoreInputs : attr_obj' = sscanf_attr(buf, attr_obj)
    /\ attr_wlocked' = TRUE
    /\ spc' = "held"
    /\ UNCHANGED <<sbuf, lifeVars, timerVars, taskletVars, workVars, lockVars,
                   gameVars, fifoVars, readVars>>

\* write_unlock(&attr_obj.lock); return count;
store_unlock ==
    /\ spc = "held"
    /\ ~StoreInterrupted
    /\ attr_wlocked' = FALSE
    /\ spc' = "idle"
    /\ UNCHANGED <<attr_obj, sbuf, lifeVars, timerVars, taskletVars, workVars,
                   lockVars, gameVars, fifoVars, readVars>>

kmldrv_state_store == store_lock \/ store_field \/ store_scan \/ store_unlock

(* ---------------- timer_handler ---------------- *)

\* The timer expires and timer_handler is entered, in softirq context.  If a
\* write of the attribute is inside its critical section, the softirq may
\* run on that CPU: write_lock does not keep bottom halves off.
timer_expires ==
    /\ timer_pending
    /\ hpc = "idle"
    /\ timer_pending' = FALSE
    /\ hpc' = "check"
    /\ hirq' \in (IF spc # "idle" THEN BOOLEAN ELSE {FALSE})
    /\ reopen' = IF reopen = "opened" THEN "none" ELSE reopen
    /\ UNCHANGED <<resetIdx, reset_from, halted, open_cnt, fpc, initVars,
                   taskletVars, workVars, lockVars, attrVars, gameVars,
                   fifoVars, readVars>>

timer_fire ==
    /\ ticks < MaxTicks
    /\ ticks' = ticks + 1
    /\ timer_expires

\* the same, the ticks not counted
timer_fire_uncounted ==
    /\ UNCHANGED ticks
    /\ timer_expires

\* char win = check_win(table); if (win == ' ') { ai_game(); mod_timer(); }
handler_check ==
    /\ hpc = "check"
    /\ IF check_win(table) = " "
       THEN /\ tasklet_sched' = TRUE
            /\ timer_pending' = TRUE
            /\ hpc' = "idle"
            /\ hirq' = FALSE
       ELSE /\ hpc' = "attr"
            /\ UNCHANGED <<tasklet_sched, timer_pending, hirq>>
    /\ UNCHANGED <<resetIdx, reset_from, ticks, halted, tpc, tturn, lifeVars,
                   workVars, lockVars, attrVars, gameVars, fifoVars, readVars>>

\* if (attr_obj.end == '0') { memset(...); mod_timer(...); } read_unlock
handler_end ==
    IF attr_obj.end = "0"
    THEN /\ hpc' = "memset"
         /\ resetIdx' = 0
         /\ reset_from' = table
         /\ UNCHANGED <<halted, hirq>>
    ELSE /\ hpc' = "idle"
         /\ halted' = TRUE
         /\ hirq' = FALSE
         /\ UNCHANGED <<resetIdx, reset_from>>

\* read_lock(&attr_obj.lock): spins while a writer holds the lock;
\* if (attr_obj.display == '1')
handler_attr ==
    /\ hpc = "attr"
    /\ ~attr_wlocked
    /\ IF attr_obj.display = "1"
       THEN /\ hpc' = "plock"
            /\ UNCHANGED <<resetIdx, reset_from, halted, hirq>>
       ELSE handler_end
    /\ UNCHANGED <<timer_pending, ticks, lifeVars, taskletVars, workVars,
                   lockVars, attrVars, gameVars, fifoVars, readVars>>

\* mutex_lock(&producer_lock);
handler_plock ==
    /\ hpc = "plock"
    /\ producer_lock = "free"
    /\ producer_lock' = "handler"
    /\ hpc' = "draw"
    /\ UNCHANGED <<timer_pending, hirq, resetIdx, reset_from, ticks, halted,
                   consumer_lock, lifeVars, taskletVars, workVars, attrVars,
                   gameVars, fifoVars, readVars>>

\* draw_board(table): one byte
handler_draw ==
    /\ hpc = "draw"
    /\ draw_board_step
    /\ UNCHANGED <<rx_fifo, pcopy, plen, len_in, rsince, timerVars, lockVars,
                   lifeVars, taskletVars, workVars, attrVars, gameVars,
                   readVars>>

\* draw_board returns; mutex_unlock(&producer_lock);
handler_punlock ==
    /\ hpc = "draw"
    /\ draw_board_done
    /\ producer_lock' = mutex_unlock("handler")
    /\ hpc' = "clock"
    /\ UNCHANGED <<timer_pending, hirq, resetIdx, reset_from, ticks, halted,
                   consumer_lock, draw_buffer, rx_fifo, pcopy, plen, len_in,
                   rsince, lifeVars, taskletVars, workVars, attrVars,
                   gameVars, readVars>>

\* mutex_lock(&consumer_lock);
handler_clock ==
    /\ hpc = "clock"
    /\ consumer_lock = "free"
    /\ consumer_lock' = "handler"
    /\ hpc' = "push"
    /\ UNCHANGED <<timer_pending, hirq, resetIdx, reset_from, ticks, halted,
                   producer_lock, lifeVars, taskletVars, workVars, attrVars,
                   gameVars, fifoVars, readVars>>

\* produce_board(): kfifo_in is entered
handler_push ==
    /\ hpc = "push"
    /\ produce_board_begin
    /\ hpc' = "copy"
    /\ UNCHANGED <<timer_pending, hirq, resetIdx, reset_from, ticks, halted,
                   draw_buffer, dpos, rx_fifo, len_in, rsince, lockVars,
                   lifeVars, taskletVars, workVars, attrVars, gameVars,
                   readVars>>

\* kfifo_in copies one byte
handler_copy ==
    /\ hpc = "copy"
    /\ produce_board_copy
    /\ UNCHANGED <<draw_buffer, dpos, rx_fifo, plen, len_in, rsince,
                   timerVars, lockVars, lifeVars, taskletVars, workVars,
                   attrVars, gameVars, readVars>>

\* kfifo_in and produce_board return; mutex_unlock(&consumer_lock);
\* wake_up_interruptible(&rx_wait); then the test of attr_obj.end
handler_pushed ==
    /\ hpc = "copy"
    /\ produce_board_end
    /\ consumer_lock' = mutex_unlock("handler")
    /\ handler_end
    /\ UNCHANGED <<timer_pending, ticks, producer_lock, draw_buffer, dpos,
                   lifeVars, taskletVars, workVars, attrVars, gameVars,
                   readVars>>

\* memset(table, ' ', N_GRIDS), one cell at a time, then mod_timer and
\* read_unlock
handler_memset ==
    /\ hpc = "memset"
    /\ table' = [table EXCEPT ![resetIdx] = " "]
    /\ IF resetIdx + 1 < N_GRIDS
       THEN /\ resetIdx' = resetIdx + 1
            /\ UNCHANGED <<hpc, hirq, timer_pending, reset_from>>
       ELSE /\ resetIdx' = 0
            /\ reset_from' = EmptyTable
            /\ timer_pending' = TRUE
            /\ hpc' = "idle"
            /\ hirq' = FALSE
    /\ UNCHANGED <<turn, finish, last_mover, ticks, halted, lifeVars,
                   taskletVars, workVars, lockVars, attrVars, fifoVars,
                   readVars>>

(* ---------------- game_tasklet_func ---------------- *)

tasklet_run ==
    /\ tasklet_sched
    /\ tpc = "idle"
    /\ tasklet_sched' = FALSE
    /\ tpc' = "b1"
    /\ UNCHANGED <<tturn, lifeVars, timerVars, workVars, lockVars, attrVars,
                   gameVars, fifoVars, readVars>>

BranchSide(b) == IF b = "b1" THEN "O" ELSE "X"
BranchWork(b) == IF b = "b1" THEN "ai_one" ELSE "ai_two"
BranchElse(b) == IF b = "b1" THEN "b2" ELSE "rest"

\* WRITE_ONCE(finish, 0); queue_work(kmldrv_workqueue, &ai_*_work);
tasklet_take(b) ==
    /\ finish' = 0
    /\ pending' = queue_work(pending, {BranchWork(b)})
    /\ tpc' = "rest"

tasklet_skip(b) ==
    /\ tpc' = BranchElse(b)
    /\ UNCHANGED <<finish, pending>>

\* `finish && turn == side` are two plain loads that race with the move
\* tasks' stores; nothing orders them, so either may be done first.
\* finish is loaded first: a zero decides the condition
tasklet_load_finish(b) ==
    /\ tpc = b
    /\ IF finish = 0 THEN tpc' = BranchElse(b) ELSE tpc' = b \o "f"
    /\ UNCHANGED <<tasklet_sched, tturn, lifeVars, timerVars, workVars,
                   lockVars, attrVars, gameVars, fifoVars, readVars>>

tasklet_then_turn(b) ==
    /\ tpc = b \o "f"
    /\ IF turn = BranchSide(b) THEN tasklet_take(b) ELSE tasklet_skip(b)
    /\ UNCHANGED <<tasklet_sched, tturn, wpc, amove, need, table, turn,
                   last_mover, lifeVars, timerVars, lockVars, attrVars,
                   fifoVars, readVars>>

\* turn is loaded first
tasklet_load_turn(b) ==
    /\ tpc = b
    /\ tturn' = turn
    /\ tpc' = b \o "t"
    /\ UNCHANGED <<tasklet_sched, lifeVars, timerVars, workVars, lockVars,
                   attrVars, gameVars, fifoVars, readVars>>

tasklet_then_finish(b) ==
    /\ tpc = b \o "t"
    /\ IF finish # 0 /\ tturn = BranchSide(b)
       THEN tasklet_take(b) ELSE tasklet_skip(b)
    /\ tturn' = "-"
    /\ UNCHANGED <<tasklet_sched, wpc, amove, need, table, turn, last_mover,
                   lifeVars, timerVars, lockVars, attrVars, fifoVars,
                   readVars>>

\* queue_work(&mcts_calc_load_work); queue_work(&drawboard_work);
tasklet_rest ==
    /\ tpc = "rest"
    /\ pending' = queue_work(pending, {"calc", "draw"})
    /\ tpc' = "idle"
    /\ UNCHANGED <<tasklet_sched, tturn, wpc, amove, need, lifeVars,
                   timerVars, lockVars, attrVars, gameVars, fifoVars,
                   readVars>>

(* ---------------- the workqueue ---------------- *)

\* a worker takes a queued move task; an item never runs twice at a time
work_start(w) ==
    /\ pending[w]
    /\ wpc[w] = "idle"
    /\ pending' = [pending EXCEPT ![w] = FALSE]
    /\ wpc' = [wpc EXCEPT ![w] = "lock"]
    /\ UNCHANGED <<amove, need, lifeVars, timerVars, taskletVars, lockVars,
                   attrVars, gameVars, fifoVars, readVars>>

\* mcts_calc_load runs from start to end without waiting for anything; the
\* averages it logs are not part of the state
mcts_calc_load ==
    /\ pending["calc"]
    /\ pending' = [pending EXCEPT !["calc"] = FALSE]
    /\ WorkDone("calc")
    /\ UNCHANGED <<amove, lifeVars, timerVars, taskletVars, lockVars,
                   attrVars, gameVars, fifoVars, readVars>>

WorkSide(w) == IF w = "ai_one" THEN "O" ELSE "X"

\* mutex_lock(&producer_lock) in ai_one_work_func / ai_two_work_func
ai_lock(w) ==
    /\ wpc[w] = "lock"
    /\ producer_lock = "free"
    /\ producer_lock' = w
    /\ wpc' = [wpc EXCEPT ![w] = "engine"]
    /\ UNCHANGED <<pending, amove, need, consumer_lock, lifeVars, timerVars,
                   taskletVars, attrVars, gameVars, fifoVars, readVars>>

\* WRITE_ONCE(move, mcts(table, 'O')) / negamax_predict(table, 'X').move:
\* the engine returns its reply for the table it was given
ai_engine(w) ==
    /\ wpc[w] = "engine"
    /\ \E move \in (IF w = "ai_one" THEN mcts(table, "O")
                    ELSE negamax_predict(table, "X")) :
          amove' = [amove EXCEPT ![w] = move]
    /\ wpc' = [wpc EXCEPT ![w] = "store"]
    /\ UNCHANGED <<pending, need, lifeVars, timerVars, taskletVars, lockVars,
                   attrVars, gameVars, fifoVars, readVars>>

\* a move task that marks cell 0 when its engine has no move
ApplyMove_clobber(t, move, side) ==
    IF move # -1 THEN [t EXCEPT ![move] = side] ELSE [t EXCEPT ![0] = side]

\* if (move != -1) WRITE_ONCE(table[move], side);
ApplyMove(t, move, side) ==
    IF move # -1 THEN [t EXCEPT ![move] = side] ELSE t

\* the store of the cell, on the table as it is now
ai_store(w) ==
    /\ wpc[w] = "store"
    /\ table' = ApplyMove(table, amove[w], WorkSide(w))
    /\ last_mover' = WorkSide(w)
    /\ wpc' = [wpc EXCEPT ![w] = "turn"]
    /\ UNCHANGED <<turn, finish, pending, amove, need, lifeVars, timerVars,
                   taskletVars, lockVars, attrVars, fifoVars, readVars>>

\* WRITE_ONCE(turn, other side);
ai_turn(w) ==
    /\ wpc[w] = "turn"
    /\ turn' = Other(WorkSide(w))
    /\ wpc' = [wpc EXCEPT ![w] = "finish"]
    /\ UNCHANGED <<table, finish, last_mover, pending, amove, need, lifeVars,
                   timerVars, taskletVars, lockVars, attrVars, fifoVars,
                   readVars>>

\* WRITE_ONCE(finish, 1);
ai_finish(w) ==
    /\ wpc[w] = "finish"
    /\ finish' = 1
    /\ wpc' = [wpc EXCEPT ![w] = "unlock"]
    /\ UNCHANGED <<table, turn, last_mover, pending, amove, need, lifeVars,
                   timerVars, taskletVars, lockVars, attrVars, fifoVars,
                   readVars>>

\* mutex_unlock(&producer_lock); the work function returns
ai_unlock(w) ==
    /\ wpc[w] = "unlock"
    /\ producer_lock' = mutex_unlock(w)
    /\ amove' = [amove EXCEPT ![w] = NoMove]
    /\ WorkDone(w)
    /\ UNCHANGED <<pending, consumer_lock, lifeVars, timerVars, taskletVars,
                   attrVars, gameVars, fifoVars, readVars>>

\* a render task that always draws
DrawSkips_never(a) == FALSE

\* if (attr_obj.display == '0') return;
DrawSkips(a) == a.display = "0"

\* a worker takes drawboard_work and runs it up to read_lock
draw_start ==
    /\ pending["draw"]
    /\ wpc["draw"] = "idle"
    /\ pending' = [pending EXCEPT !["draw"] = FALSE]
    /\ wpc' = [wpc EXCEPT !["draw"] = "check"]
    /\ UNCHANGED <<amove, need, lifeVars, timerVars, taskletVars, lockVars,
                   attrVars, gameVars, fifoVars, readVars>>

\* read_lock(&attr_obj.lock), which spins while a writer holds the lock; the
\* test of display; read_unlock
draw_check ==
    /\ wpc["draw"] = "check"
    /\ ~attr_wlocked
    /\ IF DrawSkips(attr_obj)
       THEN WorkDone("draw")
       ELSE /\ wpc' = [wpc EXCEPT !["draw"] = "plock"]
            /\ UNCHANGED need
    /\ UNCHANGED <<pending, amove, lifeVars, timerVars, taskletVars,
                   lockVars, attrVars, gameVars, fifoVars, readVars>>

\* mutex_lock(&producer_lock);
draw_plock ==
    /\ wpc["draw"] = "plock"
    /\ producer_lock = "free"
    /\ producer_lock' = "draw"
    /\ wpc' = [wpc EXCEPT !["draw"] = "draw"]
    /\ UNCHANGED <<pending, amove, need, consumer_lock, lifeVars, timerVars,
                   taskletVars, attrVars, gameVars, fifoVars, readVars>>

\* draw_board(table): one byte
draw_draw ==
    /\ wpc["draw"] = "draw"
    /\ draw_board_step
    /\ UNCHANGED <<rx_fifo, pcopy, plen, len_in, rsince, workVars, lockVars,
                   lifeVars, timerVars, taskletVars, attrVars, gameVars,
                   readVars>>

\* draw_board returns; mutex_unlock(&producer_lock);
draw_punlock ==
    /\ wpc["draw"] = "draw"
    /\ draw_board_done
    /\ producer_lock' = mutex_unlock("draw")
    /\ wpc' = [wpc EXCEPT !["draw"] = "clock"]
    /\ UNCHANGED <<pending, amove, need, consumer_lock, draw_buffer, rx_fifo,
                   pcopy, plen, len_in, rsince, lifeVars, timerVars,
                   taskletVars, attrVars, gameVars, readVars>>

\* mutex_lock(&consumer_lock);
draw_clock ==
    /\ wpc["draw"] = "clock"
    /\ consumer_lock = "free"
    /\ consumer_lock' = "draw"
    /\ wpc' = [wpc EXCEPT !["draw"] = "push"]
    /\ UNCHANGED <<pending, amove, need, producer_lock, lifeVars, timerVars,
                   taskletVars, attrVars, gameVars, fifoVars, readVars>>

\* produce_board(): kfifo_in is entered
draw_push ==
    /\ wpc["draw"] = "push"
    /\ produce_board_begin
    /\ wpc' = [wpc EXCEPT !["draw"] = "copy"]
    /\ UNCHANGED <<pending, amove, need, draw_buffer, dpos, rx_fifo, len_in,
                   rsince, lockVars, lifeVars, timerVars, taskletVars,
                   attrVars, gameVars, readVars>>

\* kfifo_in copies one byte
draw_copy ==
    /\ wpc["draw"] = "copy"
    /\ produce_board_copy
    /\ UNCHANGED <<draw_buffer, dpos, rx_fifo, plen, len_in, rsince, workVars,
                   lockVars, lifeVars, timerVars, taskletVars, attrVars,
                   gameVars, readVars>>

\* kfifo_in and produce_board return; mutex_unlock(&consumer_lock);
\* wake_up_interruptible(&rx_wait); the work function returns
draw_pushed ==
    /\ wpc["draw"] = "copy"
    /\ produce_board_end
    /\ consumer_lock' = mutex_unlock("draw")
    /\ WorkDone("draw")
    /\ UNCHANGED <<pending, amove, producer_lock, draw_buffer, dpos, lifeVars,
                   timerVars, taskletVars, attrVars, gameVars, readVars>>

(* ---------------- kmldrv_read ---------------- *)

\* mutex_unlock(&read_lock); return ret ? ret : read;
ReadFinish(r, ret, out) ==
    /\ rret' = [rret EXCEPT ![r] = ReadReturn(ret, Len(out))]
    /\ rout' = [rout EXCEPT ![r] = out]
    /\ rpc' = [rpc EXCEPT ![r] = "done"]
    /\ read_lock' = "free"

\* return -EFAULT; return -ERESTARTSYS;  before the mutex is taken
ReadFails(r, err) ==
    /\ rret' = [rret EXCEPT ![r] = ssize_t(err)]
    /\ rout' = [rout EXCEPT ![r] = NoBytes]
    /\ rpc' = [rpc EXCEPT ![r] = "done"]
    /\ UNCHANGED read_lock

\* a read on the file the process has opened; access_ok fails for a bad user
\* buffer
read_begin(r) ==
    /\ rpc[r] = "idle"
    /\ fpc[r] = "open"
    /\ ipc # "failed"
    /\ \E c \in ReadCounts, ok \in BOOLEAN :
          /\ rarg' = [rarg EXCEPT ![r] = [nonblock |-> NonBlock[r],
                                          count |-> c]]
          /\ IF ok
             THEN /\ rpc' = [rpc EXCEPT ![r] = "lock"]
                  /\ UNCHANGED <<read_lock, rret, rout>>
             ELSE ReadFails(r, -EFAULT)
    /\ UNCHANGED <<rlen, lifeVars, timerVars, taskletVars, workVars,
                   lockVars, attrVars, gameVars, fifoVars>>

\* mutex_lock_interruptible(&read_lock) succeeds
read_lock_take(r) ==
    /\ rpc[r] = "lock"
    /\ ipc # "failed"
    /\ read_lock = "free"
    /\ read_lock' = r
    /\ rpc' = [rpc EXCEPT ![r] = "copy"]
    /\ UNCHANGED <<rarg, rlen, rret, rout, lifeVars, timerVars, taskletVars,
                   workVars, lockVars, attrVars, gameVars, fifoVars>>

\* a signal arrives while the caller sleeps on the mutex
read_lock_signal(r) ==
    /\ rpc[r] = "lock"
    /\ ipc # "failed"
    /\ read_lock # "free"
    /\ ReadFails(r, -ERESTARTSYS)
    /\ UNCHANGED <<rarg, rlen, lifeVars, timerVars, taskletVars, workVars,
                   lockVars, attrVars, gameVars, fifoVars>>

\* ret = kfifo_to_user(...): the call takes the number of bytes to copy.
\* With no byte to copy it returns at once, read = 0, and the pass of the
\* do-while loop goes on up to wait_event_interruptible.
read_len(r) ==
    /\ rpc[r] = "copy"
    /\ ipc # "failed"
    /\ LET l == kfifo_to_user_len(rx_fifo, rarg[r].count)
       IN  IF l > 0
           THEN /\ rlen' = [rlen EXCEPT ![r] = l]
                /\ rpc' = [rpc EXCEPT ![r] = "user"]
                /\ UNCHANGED <<read_lock, rret, rout, rsince>>
           ELSE IF rarg[r].nonblock
           THEN /\ ReadFinish(r, -EAGAIN, NoBytes)
                /\ UNCHANGED <<rlen, rsince>>
           ELSE /\ rpc' = [rpc EXCEPT ![r] = "wait"]
                /\ rsince' = [rsince EXCEPT ![r] =
                                IF @ = NotAsleep THEN NoBytes ELSE @]
                /\ UNCHANGED <<rlen, read_lock, rret, rout>>
    /\ UNCHANGED <<rarg, draw_buffer, dpos, rx_fifo, pcopy, plen, len_in,
                   lifeVars, timerVars, taskletVars, workVars, lockVars,
                   attrVars, gameVars>>

\* the copy to the user faults: the out index moves by the bytes copied
\* before the fault; if (unlikely(ret < 0)) break;
read_copy_fault(r) ==
    /\ rpc[r] = "user"
    /\ ipc # "failed"
    /\ \E n \in FaultPoints(rlen[r]) :
          LET k == kfifo_to_user(rx_fifo, n)
          IN  /\ rx_fifo' = k.rest
              /\ rret' = [rret EXCEPT ![r] = ReadReturn(-EFAULT, n)]
              /\ rout' = [rout EXCEPT ![r] = k.out]
    /\ rpc' = [rpc EXCEPT ![r] = "done"]
    /\ rlen' = [rlen EXCEPT ![r] = 0]
    /\ read_lock' = "free"
    /\ UNCHANGED <<rarg, draw_buffer, dpos, pcopy, plen, len_in, rsince,
                   lifeVars, timerVars, taskletVars, workVars, lockVars,
                   attrVars, gameVars>>

\* the copy to the user ends and the out index moves by the bytes taken;
\* if (read) break;
read_copy(r) ==
    /\ rpc[r] = "user"
    /\ ipc # "failed"
    /\ LET k == kfifo_to_user(rx_fifo, rlen[r])
       IN  /\ rx_fifo' = k.rest
           /\ ReadFinish(r, 0, k.out)
    /\ rlen' = [rlen EXCEPT ![r] = 0]
    /\ UNCHANGED <<rarg, draw_buffer, dpos, pcopy, plen, len_in, rsince,
                   lifeVars, timerVars, taskletVars, workVars, lockVars,
                   attrVars, gameVars>>

\* wait_event_interruptible returns 0: the queue is not empty
read_wake(r) ==
    /\ rpc[r] = "wait"
    /\ ipc # "failed"
    /\ kfifo_len(rx_fifo) # 0
    /\ rpc' = [rpc EXCEPT ![r] = "copy"]
    /\ UNCHANGED <<read_lock, rarg, rlen, rret, rout, lifeVars, timerVars,
                   taskletVars, workVars, lockVars, attrVars, gameVars,
                   fifoVars>>

\* wait_event_interruptible returns -ERESTARTSYS: a signal arrived
read_wait_signal(r) ==
    /\ rpc[r] = "wait"
    /\ ipc # "failed"
    /\ ReadFinish(r, -ERESTARTSYS, NoBytes)
    /\ UNCHANGED <<rarg, rlen, lifeVars, timerVars, taskletVars, workVars,
                   lockVars, attrVars, gameVars, fifoVars>>

\* a read is called, or goes on, on a file opened while kmldrv_init was
\* running, after kmldrv_init has failed: the module's code is no longer
\* there
read_unloaded(r) ==
    /\ fpc[r] = "open"
    /\ rpc[r] \in {"idle", "lock", "copy", "user", "wait"}
    /\ ipc = "failed"
    /\ rpc' = [rpc EXCEPT ![r] = "oops"]
    /\ UNCHANGED <<read_lock, rarg, rlen, rret, rout, lifeVars, timerVars,
                   taskletVars, workVars, lockVars, attrVars, gameVars,
                   fifoVars>>

\* the caller has its result and may read again
read_return(r) ==
    /\ rpc[r] = "done"
    /\ rpc' = [rpc EXCEPT ![r] = "idle"]
    /\ rarg' = [rarg EXCEPT ![r] = NoArg]
    /\ rret' = [rret EXCEPT ![r] = ssize_t(0)]
    /\ rout' = [rout EXCEPT ![r] = NoBytes]
    /\ rsince' = [rsince EXCEPT ![r] = NotAsleep]
    /\ UNCHANGED <<read_lock, rlen, draw_buffer, dpos, rx_fifo, pcopy, plen,
                   len_in, lifeVars, timerVars, taskletVars, workVars,
                   lockVars, attrVars, gameVars>>

(* ---------------- the system ---------------- *)

\* the timer handler, the tasklet and the move tasks
Game ==
    \/ timer_fire
    \/ handler_check
    \/ handler_attr
    \/ handler_memset
    \/ tasklet_run
    \/ \E b \in {"b1", "b2"} : tasklet_load_finish(b)
    \/ \E b \in {"b1", "b2"} : tasklet_then_turn(b)
    \/ \E b \in {"b1", "b2"} : tasklet_load_turn(b)
    \/ \E b \in {"b1", "b2"} : tasklet_then_finish(b)
    \/ tasklet_rest
    \/ \E w \in {"ai_one", "ai_two"} : work_start(w)
    \/ mcts_calc_load
    \/ \E w \in {"ai_one", "ai_two"} : ai_lock(w)
    \/ \E w \in {"ai_one", "ai_two"} : ai_engine(w)
    \/ \E w \in {"ai_one", "ai_two"} : ai_store(w)
    \/ \E w \in {"ai_one", "ai_two"} : ai_turn(w)
    \/ \E w \in {"ai_one", "ai_two"} : ai_finish(w)
    \/ \E w \in {"ai_one", "ai_two"} : ai_unlock(w)
    \/ draw_start
    \/ draw_check

\* the final render of the timer handler
HandlerRender ==
    \/ handler_plock
    \/ handler_draw
    \/ handler_punlock
    \/ handler_clock
    \/ handler_push
    \/ handler_copy
    \/ handler_pushed

\* the render task past its test of display
DrawRender ==
    \/ draw_plock
    \/ draw_draw
    \/ draw_punlock
    \/ draw_clock
    \/ draw_push
    \/ draw_copy
    \/ draw_pushed

Pipeline == Game \/ HandlerRender \/ DrawRender

ReadSteps(r) ==
    \/ read_begin(r)
    \/ read_lock_take(r)
    \/ read_lock_signal(r)
    \/ read_len(r)
    \/ read_copy(r)
    \/ read_copy_fault(r)
    \/ read_wake(r)
    \/ read_wait_signal(r)
    \/ read_return(r)

\* the processes that open and close the device
Files == \E r \in Readers : kmldrv_open(r) \/ kmldrv_release(r)

\* everything that can happen from insmod to rmmod
Next ==
    \/ kmldrv_init
    \/ kmldrv_exit
    \/ Files
    \/ \E r \in Readers : release_unloaded(r) \/ read_unloaded(r)
    \/ kmldrv_state_store
    \/ Pipeline
    \/ \E r \in Readers : ReadSteps(r)

\* the whole system, from insmod on; the specifications below are parts of
\* it, each started in states the whole passes through
Spec == Init /\ [][Next]_vars

(* ---------------- parts of the system ---------------- *)

\* kmldrv_init and kmldrv_exit with the processes that open, read and close
\* the device and the writers of the attribute, from insmod on; the timer
\* does not expire, so the queue stays empty
SpecInit ==
    /\ Init
    /\ [][\/ kmldrv_init
          \/ kmldrv_exit
          \/ Files
          \/ \E r \in Readers : release_unloaded(r)
          \/ \E r \in Readers :
                \/ read_begin(r)
                \/ read_lock_take(r)
                \/ read_lock_signal(r)
                \/ read_len(r)
                \/ read_wait_signal(r)
                \/ read_return(r)
                \/ read_unloaded(r)
          \/ kmldrv_state_store]_vars

\* Opens, closes and rmmod with the game running, after a write of "0 1 0"
\* to the attribute: nothing is drawn.  The game is at its start or late.
SpecLife ==
    /\ \E t \in {EmptyTable, WinTable, DrawTable} :
          AtRestAttr(0, t, {}, AttrNoDisplay)
    /\ [][Files \/ kmldrv_exit \/ Game]_vars

\* the open device late in a game, display on
StartMid == \E t \in {WinTable, DrawTable} : Rest(1, t)

SpecMid == StartMid /\ [][Pipeline]_vars

\* the same with the writers of the attribute
SpecCtl == StartMid /\ [][Pipeline \/ store_scan \/ store_unlock]_vars

\* One step from the end of a game with nothing drawn: the tasklet of the
\* last tick has queued the O move task; end is unset or set.
SpecEnd ==
    /\ \E a \in {AttrNoDisplay, AttrNoDisplayEnd} :
          AtRestAttr(1, WinTable, {"ai_one"}, a)
    /\ [][Game]_vars

\* the render task alone, queued by a tick
NextDraw == draw_start \/ draw_check \/ DrawRender

\* on every table
SpecDraw ==
    /\ \E t \in [Cells -> Marks] : AtRest(1, t, {"draw"})
    /\ [][NextDraw]_vars

\* The render task, queued by a tick, and one reader; the queue is empty or
\* still holds the snapshot of the tick before.
NextRead ==
    \/ NextDraw
    \/ read_begin("r1")
    \/ read_lock_take("r1")
    \/ read_len("r1")
    \/ read_copy("r1")
    \/ read_copy_fault("r1")
    \/ read_wake("r1")
    \/ read_wait_signal("r1")
    \/ read_return("r1")

SpecRead ==
    /\ \E q \in {<<>>, draw_board(DrawTable)} :
          AtRestQueue(1, DrawTable, {"draw"}, AttrInit, q)
    /\ [][NextRead]_vars

\* the same with two readers, one of them on an O_NONBLOCK file
NextReaders == NextDraw \/ \E r \in Readers : ReadSteps(r)

SpecReaders == AtRest(2, DrawTable, {"draw"}) /\ [][NextReaders]_vars

\* The open device with a blocking reader and engines that never return: a
\* move task that has taken producer_lock stays in its engine call.  The
\* timer keeps firing; every other step that can be taken is taken in the
\* end (the kernel runs softirqs, runnable workers and woken readers).  The
\* tasklet loads finish before turn.
NextHung ==
    \/ timer_fire_uncounted
    \/ handler_check
    \/ tasklet_run
    \/ \E b \in {"b1", "b2"} : tasklet_load_finish(b)
    \/ \E b \in {"b1", "b2"} : tasklet_then_turn(b)
    \/ tasklet_rest
    \/ \E w \in {"ai_one", "ai_two"} : work_start(w)
    \/ mcts_calc_load
    \/ \E w \in {"ai_one", "ai_two"} : ai_lock(w)
    \/ NextDraw
    \/ read_begin("r1")
    \/ read_lock_take("r1")
    \/ read_len("r1")
    \/ read_copy("r1")
    \/ read_wake("r1")
    \/ read_return("r1")

FairHung ==
    /\ WF_vars(timer_fire_uncounted)
    /\ WF_vars(handler_check)
    /\ WF_vars(tasklet_run)
    /\ \A b \in {"b1", "b2"} : WF_vars(tasklet_load_finish(b))
    /\ \A b \in {"b1", "b2"} : WF_vars(tasklet_then_turn(b))
    /\ WF_vars(tasklet_rest)
    /\ \A w \in {"ai_one", "ai_two"} : WF_vars(work_start(w))
    /\ WF_vars(mcts_calc_load)
    /\ \A w \in {"ai_one", "ai_two"} : WF_vars(ai_lock(w))
    /\ WF_vars(NextDraw)
    /\ WF_vars(read_lock_take("r1"))
    /\ WF_vars(read_len("r1"))
    /\ WF_vars(read_copy("r1"))
    /\ WF_vars(read_wake("r1"))

SpecHung == Rest(1, DrawTable) /\ [][NextHung]_vars /\ FairHung


(* ======================= the claims ======================= *)

IsPrefix(a, b) == Len(a) <= Len(b) /\ SubSeq(b, 1, Len(a)) = a

MoveTasks == {"ai_one", "ai_two"}

\* no process is inside kmldrv_open or kmldrv_release
NoFileCall == \A r \in Readers : fpc[r] \in {"closed", "open"}

\* nothing of the pipeline is armed, scheduled, queued or running
Stopped ==
    /\ ~timer_pending
    /\ hpc = "idle"
    /\ ~tasklet_sched
    /\ tpc = "idle"
    /\ \A w \in Works : ~pending[w] /\ wpc[w] = "idle"

\* a render (the render task or the handler's final render) reads a cell of
\* the table: draw_board writes one more byte
RenderReads == dpos' = dpos + 1

\* kfifo_in is entered / returns
PushBegin ==
    \/ wpc["draw"] = "push" /\ wpc'["draw"] = "copy"
    \/ hpc = "push" /\ hpc' = "copy"
PushEnd ==
    \/ wpc["draw"] = "copy" /\ wpc'["draw"] # "copy"
    \/ hpc = "copy" /\ hpc' # "copy"

\* kmldrv_read returned n bytes
ReturnedBytes(r) == rret[r][1] = 0 /\ rret[r][2] > 0

\* C1: while files are open and no open or close is in progress, the Tick
\* Generator is armed (or its handler is running and about to re-arm it): a
\* close that leaves the count above zero does not stop the ticks.
C1_StillArmed ==
    (open_cnt > 0 /\ NoFileCall /\ ipc = "done")
        => (timer_pending \/ hpc # "idle")

\* C2: once a close has brought the count to zero and returned, the timer is
\* disarmed and no handler, tasklet or work item is pending or running.
C2_StoppedAfterLastClose ==
    (open_cnt = 0 /\ NoFileCall /\ ipc = "done") => Stopped

\* C3: a read on an O_NONBLOCK file is never left waiting for the readers'
\* mutex while another reader sleeps in a blocking read holding it.
C3_NonBlockNeverWaits ==
    \A r \in Readers :
        (rarg[r].nonblock /\ rpc[r] = "lock")
            => \A q \in Readers : rpc[q] # "wait"

\* C4: a blocking read that found the queue empty has returned only after a
\* push, and with exactly the bytes pushed since, in order, their number
\* being the value it returns.
C4_ReturnsOnlyPushed ==
    \A r \in Readers :
        (rpc[r] = "done" /\ rsince[r] # NotAsleep)
            => /\ rsince[r] # NoBytes
               /\ rret[r] = ssize_t(Len(rout[r]))
               /\ rout[r] = SubSeq(rsince[r], 1,
                                   Min(rarg[r].count, Len(rsince[r])))

\* C5 as stated: while display is '0' no step adds bytes to the queue.
C5_NoPushWhileDisabled ==
    [][attr_obj.display = "0" => Len(rx_fifo') <= Len(rx_fifo)]_vars

\* C5 amended: while display is '0' and no render task is already past its
\* display check, no step adds bytes to the queue and no render task gets
\* past its check: a render task that reads '0' returns without pushing and
\* the handler's final render pushes only under '1'.  Only a render task that
\* passed its check before display became '0' can still push.
C5_NoPushOnceDisabled ==
    [][(attr_obj.display = "0" /\ wpc["draw"] \in {"idle", "check"})
          => /\ Len(rx_fifo') <= Len(rx_fifo)
             /\ wpc'["draw"] \in {"idle", "check"}]_vars

\* display is '0', a tick's render task has come and gone, the queue is
\* still empty
C5_Witness ==
    /\ attr_obj.display = "0"
    /\ spc = "idle"
    /\ ticks >= 1
    /\ hpc = "idle"
    /\ ~tasklet_sched
    /\ tpc = "idle"
    /\ \A w \in Works : ~pending[w] /\ wpc[w] = "idle"
    /\ rx_fifo = <<>>

\* C6: every step that adds bytes to the queue adds one whole snapshot.
C6_WholeSnapshot ==
    [][Len(rx_fifo') > Len(rx_fifo)
          => Len(rx_fifo') = Len(rx_fifo) + DRAWBUFFER_SIZE]_vars

\* C7: a push never waits for room: it takes as much of the snapshot as the
\* queue has room for (the rest, the newest bytes, is dropped), keeps the
\* queued bytes where they are and appends what it took, never beyond the
\* size of the queue; a read that returns bytes returns the head of the queue
\* and leaves the rest in order.
C7_OverflowKeepsOld ==
    [][/\ PushBegin =>
            plen' = Min(DRAWBUFFER_SIZE, FifoSize - Len(rx_fifo))
       /\ PushEnd =>
            /\ rx_fifo' = rx_fifo \o pcopy
            /\ Len(pcopy) = plen
            /\ Len(rx_fifo') <= FifoSize
            /\ len_in' = plen
       /\ \A r \in Readers :
            (rpc[r] = "user" /\ rpc'[r] = "done" /\ rout'[r] # NoBytes)
                => rx_fifo = rout'[r] \o rx_fifo']_vars

\* a push overflowed and the next read returned the full queue, the old
\* snapshot first
C7_Witness ==
    /\ rpc["r1"] = "done"
    /\ rret["r1"] = ssize_t(FifoSize)
    /\ len_in = FifoSize - DRAWBUFFER_SIZE
    /\ IsPrefix(draw_board(DrawTable), rout["r1"])

\* C8: no render reads the table while the handler's reset has cleared only
\* part of it.
C8_RenderSeesWholeBoard ==
    [][RenderReads =>
          ~(hpc = "memset" /\ table # reset_from /\ table # EmptyTable)]_vars

\* C9: when no move task is inside its critical section the table does not
\* hold a winning line for both sides.
C9_OneOutcome ==
    (producer_lock \notin MoveTasks)
        => ~(HasLine(table, "O") /\ HasLine(table, "X"))

\* C10: a move task that stores its move is for the side other than the one
\* of the move task that stored before it.
C10_Alternates ==
    [][\A w \in MoveTasks :
          (wpc[w] = "store" /\ wpc'[w] = "turn")
              => last_mover # WorkSide(w)]_vars

\* C11: once a tick has found the game over with end set, its handler
\* neither resets the table nor re-arms the timer, and until the next open
\* the table does not change and the timer stays disarmed; a tick that finds
\* the game over with end unset leaves the table all-empty and the timer
\* armed.
C11_TerminalAbsorbing ==
    [][/\ (~halted /\ halted') =>
            (check_win(table) # " " /\ table' = table /\ ~timer_pending')
       /\ (halted /\ halted') => (table' = table /\ ~timer_pending')
       /\ (hpc = "memset" /\ hpc' = "idle") =>
            (table' = EmptyTable /\ timer_pending')]_vars

\* C12: at the first tick after an open that took open_cnt from 0 to 1
\* following a close to zero, the table is all-empty, it is O's turn and
\* finish is set.
C12_FreshGameOnReopen ==
    [][(reopen = "opened" /\ hpc = "idle" /\ hpc' = "check")
          => (table = EmptyTable /\ turn = "O" /\ finish = 1)]_vars

\* C13: when kmldrv_init has failed it has returned an error and holds none
\* of the resources its earlier steps acquired.
C13_FailedInitHoldsNothing ==
    (ipc = "failed") => (iret < 0 /\ held = {})

\* where a reader of the snapshot finds cell k: after the two newlines, rows
\* of 4 * BOARD_SIZE bytes, the cells of a row two bytes apart
GridPos(k) ==
    2 + (k \div BOARD_SIZE) * (4 * BOARD_SIZE) + 2 * (k % BOARD_SIZE) + 1

ParseGrid(buf) == [k \in Cells |-> buf[GridPos(k)]]

\* two newlines, then per row: cells separated by '|', a newline, a row of
\* '-', a newline
GridLayout(buf) ==
    /\ Len(buf) = DRAWBUFFER_SIZE
    /\ buf[1] = "\n"
    /\ buf[2] = "\n"
    /\ \A r \in 0 .. (BOARD_SIZE - 1) :
          LET base == 2 + r * (4 * BOARD_SIZE)
              w == 2 * BOARD_SIZE - 1
          IN  /\ \A j \in 1 .. w : (j % 2 = 0) => buf[base + j] = "|"
              /\ buf[base + w + 1] = "\n"
              /\ \A j \in 1 .. w : buf[base + w + 1 + j] = "-"
              /\ buf[base + 2 * w + 2] = "\n"

\* a full board on which X has the diagonal 0, 4, 8
DiagonalTable ==
    [c \in Cells |-> <<"X", "O", "O", "O", "X", "X", "O", "X", "X">>[c + 1]]

\* C14: once the render task has drawn a table, draw_buffer has the layout
\* of the snapshot and parsing its grid gives back the table, mark for mark
\* and position for position.
C14_RoundTrip ==
    (wpc["draw"] \in {"clock", "push", "copy"})
        => (GridLayout(draw_buffer) /\ ParseGrid(draw_buffer) = table)

\* the full board with a diagonal win has been drawn and parses back
C14_Witness ==
    /\ wpc["draw"] = "clock"
    /\ table = DiagonalTable
    /\ ParseGrid(draw_buffer) = DiagonalTable

\* the move tasks that are queued or running and have not set finish again
InFlight == {w \in MoveTasks : pending[w] \/ wpc[w] # "idle"}

\* C15: at most one move task is queued or running without having set
\* finish again, and the tasklet queues a move task only when none is, for
\* the side turn names: one move task per ply, whatever the number of ticks.
C15_OneTaskPerPly ==
    [][/\ Cardinality(InFlight') <= 1
       /\ \A w \in MoveTasks :
            (~pending[w] /\ pending'[w])
                => (InFlight = {} /\ turn = WorkSide(w))]_vars

\* C16: timer_handler is never at a lock that another context holds: not at
\* the mutex_lock of producer_lock or consumer_lock, not at the read_lock of
\* attr_obj.lock.
C16_HandlerNeverWaits ==
    /\ ~(hpc = "plock" /\ producer_lock # "free")
    /\ ~(hpc = "clock" /\ consumer_lock # "free")
    /\ ~(hpc = "attr" /\ attr_wlocked)

\* C17: with the engines hung, display on and the timer firing, a reader
\* asleep in a blocking read is woken in the end and returns data.
C17_ReaderGetsData ==
    (rpc["r1"] = "wait") ~> (rpc["r1"] = "done" /\ ReturnedBytes("r1"))

\* the execution contexts that take locks
Contexts == {"handler", "draw", "store"} \cup MoveTasks \cup Readers

Locks == {"producer_lock", "consumer_lock", "read_lock", "attr_obj.lock"}

\* the owner of a mutex; of attr_obj.lock, the writer that keeps readers out
Owner(m) ==
    IF m = "producer_lock" THEN producer_lock
    ELSE IF m = "consumer_lock" THEN consumer_lock
    ELSE IF m = "read_lock" THEN read_lock
    ELSE IF attr_wlocked THEN "store" ELSE "free"

Holds(c) == {m \in Locks : Owner(m) = c}

\* the lock a context is about to take
Tries(c) ==
    IF c = "handler"
    THEN (IF hpc = "plock" THEN "producer_lock"
          ELSE IF hpc = "clock" THEN "consumer_lock"
          ELSE IF hpc = "attr" THEN "attr_obj.lock" ELSE "none")
    ELSE IF c = "draw"
    THEN (IF wpc[c] = "plock" THEN "producer_lock"
          ELSE IF wpc[c] = "clock" THEN "consumer_lock"
          ELSE IF wpc[c] = "check" THEN "attr_obj.lock" ELSE "none")
    ELSE IF c \in MoveTasks
    THEN (IF wpc[c] = "lock" THEN "producer_lock" ELSE "none")
    ELSE IF c \in Readers
    THEN (IF rpc[c] = "lock" THEN "read_lock" ELSE "none")
    ELSE "none"

\* the context that holds the lock c is waiting for, if any
WaitsFor(c) == IF Tries(c) = "none" THEN "free" ELSE Owner(Tries(c))

\* the context reached from c after n steps of waits-for
RECURSIVE WaitChain(_, _)
WaitChain(c, n) ==
    IF n = 0 \/ c \notin Contexts THEN c ELSE WaitChain(WaitsFor(c), n - 1)

\* C18: no context holds producer_lock and consumer_lock together, none is
\* at the mutex_lock of one of them while holding the other, and no context
\* waits, through a chain of lock owners, for itself.
C18_LockDiscipline ==
    \A c \in Contexts :
        /\ ~({"producer_lock", "consumer_lock"} \subseteq Holds(c))
        /\ Tries(c) = "producer_lock" => "consumer_lock" \notin Holds(c)
        /\ Tries(c) = "consumer_lock" => "producer_lock" \notin Holds(c)
        /\ \A n \in 1 .. Cardinality(Contexts) : WaitChain(c, n) # c

\* the handler holds producer_lock for its final draw while the render task
\* holds consumer_lock for its push
C18_Witness ==
    /\ producer_lock = "handler"
    /\ consumer_lock = "draw"

\* C19: a move task whose engine returned -1 stores nothing in the table,
\* one whose engine returned a cell stores its own mark there and nothing
\* else; either way it then stores the other side in turn and 1 in finish,
\* and none of its other steps writes a cell.
C19_MoveFrame ==
    [][\A w \in MoveTasks :
          /\ (wpc[w] = "store" /\ wpc'[w] = "turn") =>
                /\ IF amove[w] = -1
                   THEN table' = table
                   ELSE /\ table'[amove[w]] = WorkSide(w)
                        /\ \A c \in Cells \ {amove[w]} : table'[c] = table[c]
                /\ turn' = turn
                /\ finish' = finish
          /\ (wpc[w] = "turn" /\ wpc'[w] = "finish") =>
                (turn' = Other(WorkSide(w)) /\ table' = table)
          /\ (wpc[w] = "finish" /\ wpc'[w] = "unlock") =>
                (finish' = 1 /\ turn' = turn /\ table' = table)
          /\ (wpc[w] \in {"lock", "engine", "unlock"} /\ wpc'[w] # wpc[w]) =>
                table' = table]_vars

\* the X move task found no legal move, left the full table as it was and
\* passed the turn back to O
C19_Witness ==
    /\ wpc["ai_two"] = "unlock"
    /\ amove["ai_two"] = -1
    /\ \A c \in Cells : table[c] # " "
    /\ turn = "O"
    /\ finish = 1

\* C20: a move task calls its engine only on a table on which the game is
\* still in progress.
C20_EngineOnLiveBoard ==
    [][\A w \in MoveTasks :
          (wpc[w] = "engine" /\ wpc'[w] = "store")
              => check_win(table) = " "]_vars

====
